---- MODULE Spec2Model ----
(***************************************************************************)
(* A model of tpdp.pipeline: the Pipeline orchestrator, its Step and State  *)
(* collaborators and the StepResult / PipelineResult records.               *)
(*                                                                          *)
(* Python objects that are shared by reference are modelled explicitly:     *)
(*   - a State is a record with an identity (id) and a content (val): an    *)
(*     in-place mutation keeps the id, a replacement has another id;        *)
(*   - a list is a cell of the variable heap, and a field that holds a list *)
(*     holds the index of its cell.                                         *)
(* One run call is one action: the whole body of Pipeline.run, its loop     *)
(* included, is computed by the operators below.                            *)
(***************************************************************************)
EXTENDS Integers, Sequences, FiniteSets, TLC

\* ------------------------------------------------------------------ bounds
MaxSteps == 3   \* registry_step is not offered beyond this many steps
MaxRuns == 2    \* run is not offered beyond this many calls

\* ------------------------------------------------------------------ values
NoError == "none"
NoTime == -1

\* State objects (pipeline.py:76). cls tells what isinstance sees.
InitState == [cls |-> "State", id |-> "init_state", val |-> 0]
NotAState == [cls |-> "object", id |-> "not_a_state", val |-> 0]
Unset == [cls |-> "unset", id |-> "unset", val |-> 0]
InitStates == {InitState, NotAState}

\* Step objects: a name and the behaviour of the user's run method.
Step(step_name, kind) == [cls |-> "Step", step_name |-> step_name, kind |-> kind]
step_1 == Step("step_1", "inc")
step_2 == Step("step_2", "replace")
abort_step == Step("abort_step", "abort")
error_step == Step("error_step", "error")
NotAStep == [cls |-> "object", step_name |-> "not_a_step", kind |-> "none"]
abort_error_step == Step("abort_error_step", "abort_error")
StepObjects == {step_1, step_2, abort_step, error_step, abort_error_step}
Objects == StepObjects \cup {NotAStep}

\* Keyword contexts of run, as ordered key/value pairs.
NoContext == << >>
DeltaContext == << <<"delta", 1>> >>
AbortKeyContext == << <<"pipeline_abort", 0>> >>
Contexts == {NoContext, DeltaContext, AbortKeyContext}
\* The calls of run that are tried: a State with each context, and a value
\* that is not a State.
RunInputs ==
  {<<InitState, ctx>> : ctx \in Contexts} \cup {<<NotAState, NoContext>>}
Keys(ctx) == {ctx[i][1] : i \in DOMAIN ctx}
\* kwargs[key], for a key the context has.
Value(ctx, key) == ctx[CHOOSE i \in DOMAIN ctx : ctx[i][1] = key][2]
\* What a step reads as its keyword parameter delta (0 when not passed).
Delta(ctx) == IF "delta" \in Keys(ctx) THEN Value(ctx, "delta") ELSE 0

is_state(x) == x.cls = "State"
is_step(x) == x.cls = "Step"

\* Mutant of assert_state: any value is let through.
assert_state_Lenient(x) == [raised |-> NoError, value |-> x]

\* assert_state / assert_step: the error raised, and the value returned.
assert_state(x) ==
  IF ~is_state(x) THEN [raised |-> "TpdpException", value |-> Unset]
  ELSE [raised |-> NoError, value |-> x]

assert_step(x) ==
  IF ~is_step(x) THEN [raised |-> "TpdpException", value |-> NotAStep]
  ELSE [raised |-> NoError, value |-> x]

\* ------------------------------------------------------------- user steps
\* What the body of a step's run method does with the state it is handed,
\* the context and the abort hook:
\*   mutated  the handed object after the body's in-place writes,
\*   returned the instance the body returns (when it returns),
\*   hooks    how many times the body calls the abort hook,
\*   error    the exception the body raises, or NoError.
Body(step, state, ctx) ==
  CASE step.kind = "inc" ->
         LET s == [state EXCEPT !.val = @ + 1 + Delta(ctx)]
         IN [mutated |-> s, returned |-> s, hooks |-> 0, error |-> NoError]
    [] step.kind = "replace" ->
         [mutated |-> state,
          returned |-> [cls |-> "State", id |-> "replaced", val |-> 2 * state.val],
          hooks |-> 0, error |-> NoError]
    [] step.kind = "abort" ->   \* calls the hook 1 + delta times
         LET s == [state EXCEPT !.val = @ + 1]   \* written after the hook calls
         IN [mutated |-> s, returned |-> s, hooks |-> 1 + Delta(ctx),
             error |-> NoError]
    [] step.kind = "error" ->
         LET s == [state EXCEPT !.val = @ + 1]   \* written before the raise
         IN [mutated |-> s, returned |-> s, hooks |-> 0, error |-> "ValueError"]
    [] step.kind = "abort_error" ->   \* calls the hook, then raises
         [mutated |-> state, returned |-> state, hooks |-> 1,
          error |-> "ValueError"]

\* The call step.run(self._state, pipeline_abort=self.pipeline_abort, **kwargs):
\* a context that has the key pipeline_abort itself makes the call raise
\* TypeError (the keyword is given twice) before the body is entered.
Call(step, state, ctx) ==
  IF "pipeline_abort" \in Keys(ctx)
  THEN [entered |-> FALSE, mutated |-> state, returned |-> state,
        hooks |-> 0, error |-> "TypeError"]
  ELSE [entered |-> TRUE] @@ Body(step, state, ctx)

\* ---------------------------------------------------------------- records
StepResult(name, duration, start_at, finish_at, correct_finish) ==
  [name |-> name, duration |-> duration, start_at |-> start_at,
   finish_at |-> finish_at, correct_finish |-> correct_finish]

\* steps_result of a PipelineResult is the index of its list in the heap.
PipelineResult(pipeline_name, steps_result, pipeline_duration, start_at, finish_at, correct_finish) ==
  [pipeline_name |-> pipeline_name, steps_result |-> steps_result,
   pipeline_duration |-> pipeline_duration, start_at |-> start_at,
   finish_at |-> finish_at, correct_finish |-> correct_finish]

NoResult == PipelineResult("none", 0, NoTime, NoTime, NoTime, FALSE)

\* ------------------------------------------------------------------ state
VARIABLES
  _pipeline_abort,           \* Pipeline._pipeline_abort
  _ignore_exception,         \* Pipeline._ignore_exception
  _steps,                    \* Pipeline._steps
  _steps_result,             \* Pipeline._steps_result: the index of its list
  _state,                    \* Pipeline._state (Unset before the first run)
  _correct_finish,           \* Pipeline._correct_finish
  _times,                    \* the five _pipeline_* time fields
  heap,                      \* the lists: heap[i] is the content of list i
  now,                       \* the clock that time.time / datetime.now read
  tick,                      \* how far the clock moves between two reads
  runs,                      \* number of run calls so far
  last,                      \* the last call: its inputs and what came out
  returned                   \* the PipelineResults the caller holds, and a
                             \* copy of the content each had when returned

vars == <<_pipeline_abort, _ignore_exception, _steps, _steps_result, _state,
          _correct_finish, _times, heap, now, tick, runs, last, returned>>

pipeline_name == "SimplePipeline"

NoTimes == [start_time |-> NoTime, start_datetime |-> NoTime,
            finish_time |-> NoTime, finish_datetime |-> NoTime,
            duration |-> NoTime]

\* The pipeline as it is when a call starts: its step sequence, the content
\* of its result list, its abort flag and its live state, and how many
\* PipelineResults the caller holds.
Before ==
  [steps |-> _steps, results |-> heap[_steps_result],
   abort |-> _pipeline_abort, state |-> _state, returned |-> Len(returned)]

NoCall == [op |-> "none", step |-> NotAStep, init_state |-> Unset,
           ctx |-> NoContext, raised |-> NoError, result |-> NoResult,
           calls |-> << >>, exit |-> "none",
           pre |-> [steps |-> << >>, results |-> << >>, abort |-> FALSE,
                    state |-> Unset, returned |-> 0]]

\* Pipeline.__init__: the policy is the constructor's argument.
Init ==
  /\ _pipeline_abort = FALSE
  /\ _ignore_exception \in BOOLEAN
  /\ _steps = << >>
  /\ _steps_result = 1
  /\ heap = << << >> >>
  /\ _state = Unset
  /\ _correct_finish = FALSE
  /\ _times = NoTimes
  /\ now = 0
  /\ tick \in 0..1
  /\ runs = 0
  /\ last = NoCall
  /\ returned = << >>

\* --------------------------------------------------------------- Pipeline
\* _start_pipeline: two reads of the clock.
_start_pipeline(t) ==
  [start_time |-> t, start_datetime |-> t + tick, now |-> t + 2 * tick]

\* _finish_pipeline: two reads of the clock, and the duration.
_finish_pipeline(times, t) ==
  [times EXCEPT !.finish_time = t, !.finish_datetime = t + tick,
                !.duration = t - times.start_time]

\* Mutant of Reraise: the error is swallowed under either policy.
Reraise_Swallow(ignore_exception, e) == NoError

\* The except branch of _run_step: the error that escapes _run_step.
Reraise(ignore_exception, e) ==
  IF ignore_exception = TRUE THEN NoError ELSE e

\* Mutant of pipeline_abort: the flag is flipped.
pipeline_abort_Toggle(abort) == ~abort

\* pipeline_abort: the abort flag afterwards.
pipeline_abort(abort) == TRUE

\* The abort flag after n calls of the hook, which is self.pipeline_abort.
RECURSIVE HookCalls(_, _)
HookCalls(abort, n) ==
  IF n = 0 THEN abort ELSE HookCalls(pipeline_abort(abort), n - 1)

\* Mutant of AdoptReturned: the returned instance is dropped.
AdoptReturned_Keep(mutated, result) == mutated

\* self._state = step.run(...): the live state when the call returns, given
\* the handed object as the body left it and the instance it returned.
AdoptReturned(mutated, result) == result

\* Mutant of StateAfterRaise: the state is put back as it was handed.
StateAfterRaise_Rollback(state, mutated) == state

\* The live state when the call raises: the assignment of _run_step is not
\* reached, self._state is still the handed object, as the body left it.
StateAfterRaise(state, mutated) == mutated

\* _run_step on the live state, with the abort flag and the clock as they are
\* when it starts. state is self._state afterwards: the returned instance
\* when the call returns, else the handed object as the body left it.
_run_step(step, state, abort, ctx, t) ==
  LET step_start_time == t
      step_start_datetime == t + tick
      call == Call(step, state, ctx)
      step_correct_finish == call.error = NoError
      escaped == IF step_correct_finish THEN NoError
                 ELSE Reraise(_ignore_exception, call.error)
      step_finish_time == t + 2 * tick
      step_finish_datetime == t + 3 * tick
      step_duration == step_finish_time - step_start_time
  IN [state |-> IF step_correct_finish
                THEN AdoptReturned(call.mutated, call.returned)
                ELSE StateAfterRaise(state, call.mutated),
      abort |-> HookCalls(abort, call.hooks),
      raised |-> escaped,
      now |-> IF escaped = NoError THEN t + 4 * tick ELSE t + 2 * tick,
      result |-> StepResult(step.step_name, step_duration, step_start_datetime,
                            step_finish_datetime, step_correct_finish),
      call |-> [step |-> step, state |-> state, ctx |-> ctx,
                hook |-> "self.pipeline_abort", entered |-> call.entered,
                hooks |-> call.hooks, error |-> call.error,
                returned |-> call.returned]]

\* Mutant of StepAt: the loop walks the sequence from its end.
StepAt_Reversed(steps, i) == steps[Len(steps) + 1 - i]

\* for step in self._steps: the step of the i-th iteration.
StepAt(steps, i) == steps[i]

\* Mutant of FailureCheck: a failed step does not stop the loop.
FailureCheck_Never(step_result) == FALSE

\* if not step_result.correct_finish
FailureCheck(step_result) == ~step_result.correct_finish

\* Mutant of AbortCheck: the abort flag does not stop the loop.
AbortCheck_Never(abort) == FALSE

\* if self._pipeline_abort is True
AbortCheck(abort) == abort = TRUE

\* Mutant of Branch: the abort flag is looked at before the failure.
Branch_AbortFirst(step_result, abort) ==
  IF AbortCheck(abort) THEN "abort"
  ELSE IF FailureCheck(step_result) THEN "failure"
  ELSE "next"

\* The two ifs that end an iteration of the loop, in their order: the break
\* taken, or "next" when the loop goes on.
Branch(step_result, abort) ==
  IF FailureCheck(step_result) THEN "failure"
  ELSE IF AbortCheck(abort) THEN "abort"
  ELSE "next"

\* The loop of run from its i-th iteration on. acc holds the fields the loop
\* writes: state, abort, results (the content of the _steps_result list),
\* correct, now, and calls (the step calls made), raised (the error that
\* left the loop) and exit (how the loop was left).
RECURSIVE loop(_, _, _, _)
loop(steps, i, ctx, acc) ==
  IF i > Len(steps) THEN acc
  ELSE LET r == _run_step(StepAt(steps, i), acc.state, acc.abort, ctx, acc.now)
           acc1 == [acc EXCEPT !.state = r.state, !.abort = r.abort,
                               !.now = r.now, !.calls = Append(@, r.call)]
           acc2 == [acc1 EXCEPT !.results = Append(@, r.result)]
           branch == Branch(r.result, acc2.abort)
       IN IF r.raised # NoError
          THEN [acc1 EXCEPT !.raised = r.raised, !.exit = "raised"]
          ELSE IF branch = "failure"
          THEN [acc2 EXCEPT !.correct = FALSE, !.exit = "failure"]
          ELSE IF branch = "abort" THEN [acc2 EXCEPT !.exit = "abort"]
          ELSE loop(steps, i + 1, ctx, acc2)

\* Mutant of FieldList: the field holds the list it was given.
FieldList_Shared(h, l) == [heap |-> h, list |-> l]

\* steps_result=self._steps_result in the PipelineResult constructor: the
\* List[StepResult] field is validated into a list of its own. h is the heap,
\* l the list given; the result is the heap and the list the field holds.
FieldList(h, l) == [heap |-> Append(h, h[l]), list |-> Len(h) + 1]

_get_pipeline_result(h, times, correct) ==
  LET f == FieldList(h, _steps_result)
  IN [heap |-> f.heap,
      result |-> PipelineResult(pipeline_name, f.list, times.duration,
                                times.start_datetime, times.finish_datetime,
                                correct)]

\* Mutant of AbortAtStart: run clears the abort flag when it starts.
AbortAtStart_Reset(abort) == FALSE

\* The abort flag the loop of run starts with: run does not write it.
AbortAtStart(abort) == abort

\* Mutant of AdoptInitState: the assignment is missing.
AdoptInitState_Keep(state, init_state) == state

\* self._state = init_state
AdoptInitState(state, init_state) == init_state

\* The body of Pipeline.run up to its return or raise: the new values of the
\* fields, the error raised (or NoError) and the step calls made.
run(init_state, ctx) ==
  LET s == _start_pipeline(now)
      times0 == [_times EXCEPT !.start_time = s.start_time,
                               !.start_datetime = s.start_datetime]
      state0 == AdoptInitState(_state, init_state)
      checked == assert_state(state0)
      acc0 == [state |-> state0, abort |-> AbortAtStart(_pipeline_abort),
               results |-> heap[_steps_result], correct |-> TRUE,
               now |-> s.now, calls |-> << >>, raised |-> NoError,
               exit |-> "exhausted"]
      acc == IF Len(_steps) = 0 THEN acc0 ELSE loop(_steps, 1, ctx, acc0)
  IN IF checked.raised # NoError
     THEN [acc0 EXCEPT !.raised = checked.raised, !.correct = _correct_finish,
                       !.exit = "rejected"]
            @@ [times |-> times0]
     ELSE IF acc.raised # NoError
     THEN acc @@ [times |-> times0]
     ELSE [acc EXCEPT !.now = @ + 2 * tick]
            @@ [times |-> _finish_pipeline(times0, acc.now)]

\* The content of a PipelineResult as its holder reads it.
Content(h, r) == [r EXCEPT !.steps_result = h[r.steps_result]]

\* The end of a run call whose body came out as o: the fields are written,
\* and when no error left the body the PipelineResult is built and handed
\* to the caller.
Outcome(init_state, ctx, o) ==
  LET h == [heap EXCEPT ![_steps_result] = o.results]
      g == _get_pipeline_result(h, o.times, o.correct)
      ok == o.raised = NoError
  IN /\ _state' = o.state
     /\ _pipeline_abort' = o.abort
     /\ _correct_finish' = o.correct
     /\ _times' = o.times
     /\ now' = o.now
     /\ heap' = IF ok THEN g.heap ELSE h
     /\ returned' = IF ok
                    THEN Append(returned, [result |-> g.result,
                                           content |-> Content(g.heap, g.result)])
                    ELSE returned
     /\ last' = [op |-> "run", step |-> NotAStep, init_state |-> init_state,
                 ctx |-> ctx, raised |-> o.raised,
                 result |-> IF ok THEN g.result ELSE NoResult,
                 calls |-> o.calls, exit |-> o.exit, pre |-> Before]

Run(init_state, ctx) ==
  /\ runs < MaxRuns
  /\ Outcome(init_state, ctx, run(init_state, ctx))
  /\ runs' = runs + 1
  /\ UNCHANGED <<_ignore_exception, _steps, _steps_result, tick>>

\* Mutant of registry_step: the step is put in front.
registry_step_Prepend(steps, step) ==
  IF assert_step(step).raised # NoError THEN steps ELSE <<step>> \o steps

\* registry_step: the step sequence afterwards.
registry_step(steps, step) ==
  IF assert_step(step).raised # NoError THEN steps ELSE Append(steps, step)

RegistryStep(step) ==
  /\ Len(_steps) < MaxSteps
  /\ _steps' = registry_step(_steps, step)
  /\ last' = [NoCall EXCEPT !.op = "registry_step", !.step = step,
                            !.raised = assert_step(step).raised,
                            !.pre = Before]
  /\ UNCHANGED <<_pipeline_abort, _ignore_exception, _steps_result, _state,
                 _correct_finish, _times, heap, now, tick, runs, returned>>

\* pipeline_abort, called by the owner of the pipeline between runs (a step
\* calls it through the hook, inside Run).
PipelineAbort ==
  /\ _pipeline_abort' = pipeline_abort(_pipeline_abort)
  /\ last' = [NoCall EXCEPT !.op = "pipeline_abort", !.pre = Before]
  /\ UNCHANGED <<_ignore_exception, _steps, _steps_result, _state,
                 _correct_finish, _times, heap, now, tick, runs, returned>>

get_state == _state

Next ==
  \/ \E step \in Objects : RegistryStep(step)
  \/ \E input \in RunInputs : Run(input[1], input[2])
  \/ PipelineAbort

Spec == Init /\ [][Next]_vars

\* ================================================================= claims
\* The content of the pipeline's own result list.
Results == heap[_steps_result]
\* The last call was run / was a run that returned a PipelineResult.
RunCalled == last.op = "run"
RunReturned == RunCalled /\ last.raised = NoError
\* The steps_result list of the PipelineResult the last run returned.
ResultList == heap[last.result.steps_result]
\* The entries the last run appended to the pipeline's result list.
Appended == SubSeq(Results, Len(last.pre.results) + 1, Len(Results))
AllCorrect(list) == \A i \in DOMAIN list : list[i].correct_finish = TRUE

\* What a call of the step does, whatever state it is handed.
Raises(step, ctx) == Call(step, InitState, ctx).error # NoError
InvokesHook(step, ctx) == Call(step, InitState, ctx).hooks > 0

\* The registered steps applied one after another, from the i-th on.
RECURSIVE ApplyAll(_, _, _, _)
ApplyAll(steps, i, state, ctx) ==
  IF i > Len(steps) THEN state
  ELSE ApplyAll(steps, i + 1, Body(steps[i], state, ctx).returned, ctx)

\* ---- C1
C1_Case ==
  /\ RunCalled /\ runs = 1 /\ is_state(last.init_state)
  /\ Len(_steps) >= 1
  /\ \A i \in DOMAIN _steps :
       ~Raises(_steps[i], last.ctx) /\ ~InvokesHook(_steps[i], last.ctx)

C1_Outcome ==
  /\ last.raised = NoError
  /\ Len(last.calls) = Len(_steps)
  /\ \A i \in DOMAIN _steps : last.calls[i].step = _steps[i]
  /\ Len(ResultList) = Len(_steps)
  /\ \A i \in DOMAIN _steps : ResultList[i].name = _steps[i].step_name
  /\ AllCorrect(ResultList)
  /\ get_state = ApplyAll(_steps, 1, last.init_state, last.ctx)

\* C1 as stated: on the first run of a pipeline with n >= 1 steps, none of
\* which raises or invokes the abort hook, every registered position is
\* executed exactly once in registration order, the result has n entries
\* named after the steps in order, all with correct_finish true, and
\* get_state() is the steps applied to init_state in registration order.
C1_Original == C1_Case => C1_Outcome

\* C1, amended: the same, for a first run started while the abort flag is
\* not set (pipeline_abort was not called on the pipeline before the run).
C1_FirstRunInOrder == (C1_Case /\ ~last.pre.abort) => C1_Outcome

C1_Witness ==
  /\ C1_Case /\ ~last.pre.abort
  /\ _steps = <<step_1, step_2, step_1>> /\ last.ctx = DeltaContext
  /\ get_state.id = "replaced" /\ get_state.val = 6

C1_WitnessDuplicate ==
  C1_Case /\ ~last.pre.abort /\ _steps = <<step_1, step_2, step_1>>
  /\ last.ctx = NoContext /\ get_state.val = 3

\* ---- C2
\* C2 as stated: for every PipelineResult returned by run, after any sequence
\* of registry_step and run calls, correct_finish is true if and only if
\* every entry of its steps_result list has correct_finish true.
C2_Claim ==
  RunReturned => (last.result.correct_finish = TRUE <=> AllCorrect(ResultList))

\* ---- C3
\* The last run stopped on its failure branch / on its abort branch.
Failed == RunReturned /\ last.calls # << >>
          /\ last.calls[Len(last.calls)].error # NoError
Aborted == RunReturned /\ ~Failed /\ last.calls # << >> /\ _pipeline_abort

\* C3 as stated: for every run that returns a PipelineResult, on a fresh
\* pipeline or on one that has already been run, the number of StepResult
\* entries of the result equals the number of steps attempted during that
\* run, which is at most the number of registered steps, with equality
\* unless an abort or a failure truncated the run.
C3_Claim ==
  RunReturned =>
    /\ Len(ResultList) = Len(last.calls)
    /\ Len(last.calls) <= Len(_steps)
    /\ (Len(last.calls) = Len(_steps) \/ Aborted \/ Failed)

\* ---- C4
\* In the last run, a first run, step k < n is the first to invoke the abort
\* hook and steps 1..k return normally.
C4_Case(k) ==
  /\ RunCalled /\ runs = 1 /\ is_state(last.init_state)
  /\ k < Len(_steps) /\ k <= Len(last.calls)
  /\ last.calls[k].hooks > 0
  /\ \A j \in 1..(k - 1) : last.calls[j].hooks = 0
  /\ \A j \in 1..k : last.calls[j].entered /\ last.calls[j].error = NoError

\* C4: on the first run of a pipeline with n steps, if step k < n is the
\* first step to invoke the abort hook and steps 1..k return normally, the
\* run returns a PipelineResult with exactly k entries, all with
\* correct_finish true, aggregate correct_finish true, and steps k+1..n are
\* never invoked.
C4_AbortAtK ==
  \A k \in DOMAIN _steps :
    C4_Case(k) =>
      /\ last.raised = NoError
      /\ Len(ResultList) = k
      /\ AllCorrect(ResultList)
      /\ last.result.correct_finish = TRUE
      /\ Len(last.calls) = k

C4_Witness == C4_Case(2) /\ _steps = <<step_1, abort_step, step_2>>

\* ---- C5
\* A step call of the last run raised.
StepRaised ==
  RunCalled /\ \E j \in DOMAIN last.calls : last.calls[j].error # NoError
\* The last run's last step call is its only one that raised.
RaisedLast ==
  /\ last.calls # << >>
  /\ last.calls[Len(last.calls)].error # NoError
  /\ \A j \in 1..(Len(last.calls) - 1) : last.calls[j].error = NoError
\* The pipeline's result list is what it was before the run, then Appended.
OnlyAppended ==
  /\ Len(Results) >= Len(last.pre.results)
  /\ SubSeq(Results, 1, Len(last.pre.results)) = last.pre.results

\* C5: under the ignore policy, when a step raises during a run, run does
\* not raise: it returns a PipelineResult with correct_finish false in which
\* exactly one entry with correct_finish false was appended by that run, that
\* entry is the last entry of steps_result and names the failing step, and no
\* step registered after the failing one is invoked in that run.
C5_IgnoredFailure ==
  (StepRaised /\ _ignore_exception = TRUE) =>
    /\ last.raised = NoError
    /\ last.result.correct_finish = FALSE
    /\ OnlyAppended
    /\ ResultList = Results
    /\ Cardinality({i \in DOMAIN Appended : Appended[i].correct_finish = FALSE}) = 1
    /\ RaisedLast
    /\ Len(Appended) = Len(last.calls)
    /\ ResultList[Len(ResultList)].correct_finish = FALSE
    /\ ResultList[Len(ResultList)].name = last.calls[Len(last.calls)].step.step_name

C5_Witness ==
  /\ StepRaised /\ _ignore_exception = TRUE
  /\ _steps = <<step_1, error_step, step_2>> /\ last.ctx = NoContext
  /\ Len(last.pre.results) > 0

\* ---- C6
\* C6: under the propagate policy, when a step raises during a run, run
\* raises that same error, returns no PipelineResult, appends no StepResult
\* for the failing step (the result list gains only the entries of the steps
\* that completed before it) and invokes no step registered after it.
C6_PropagatedFailure ==
  (StepRaised /\ _ignore_exception = FALSE) =>
    /\ RaisedLast
    /\ last.raised = last.calls[Len(last.calls)].error
    /\ last.result = NoResult
    /\ Len(returned) = last.pre.returned
    /\ OnlyAppended
    /\ Len(Appended) = Len(last.calls) - 1
    /\ AllCorrect(Appended)
    /\ \A i \in DOMAIN Appended : Appended[i].name = last.calls[i].step.step_name

C6_Witness ==
  /\ StepRaised /\ _ignore_exception = FALSE
  /\ _steps = <<step_1, error_step, step_2>> /\ last.raised = "ValueError"
  /\ Len(Appended) = 1 /\ Len(last.pre.results) > 0

\* ---- C7
C7_Case == RunCalled /\ Len(_steps) = 0 /\ is_state(last.init_state)

\* C7: a run with zero registered steps and a valid State returns a
\* PipelineResult with correct_finish true and an empty steps_result list,
\* invokes no step, and get_state() afterwards is the init_state passed in;
\* however many times run is called while the sequence is empty and whatever
\* the abort flag is.
C7_EmptyRun ==
  C7_Case =>
    /\ last.raised = NoError
    /\ last.result.correct_finish = TRUE
    /\ ResultList = << >>
    /\ last.calls = << >>
    /\ get_state = last.init_state

C7_Witness ==
  C7_Case /\ runs = 2 /\ last.pre.abort /\ Len(returned) = 2

\* ---- C8
C8_Case == RunCalled /\ ~is_state(last.init_state)

\* C8: run with an init_state that is not a State fails with the state type
\* error before any step is invoked, appends no StepResult and returns no
\* PipelineResult, under either failure policy; and assert_state returns its
\* argument unchanged when it is a State.
C8_Rejected ==
  /\ C8_Case =>
       /\ last.raised = "TpdpException"
       /\ last.calls = << >>
       /\ Results = last.pre.results
       /\ last.result = NoResult
       /\ Len(returned) = last.pre.returned
  /\ \A x \in InitStates \cup {_state} :
       is_state(x) => assert_state(x) = [raised |-> NoError, value |-> x]

C8_Witness ==
  C8_Case /\ Len(_steps) = 2 /\ Len(last.pre.results) = 2 /\ is_state(last.pre.state)

\* ---- C9
C9_Case == last.op = "registry_step"

\* C9: registry_step(x) appends x at the end of the step sequence exactly
\* when x is a Step (every earlier entry keeps its position, the same Step
\* may be appended again); when x is not a Step it fails with the step type
\* error and leaves the step sequence, the result list, the abort flag and
\* the live state unchanged.
C9_Registry ==
  C9_Case =>
    /\ is_step(last.step) =>
         last.raised = NoError /\ _steps = Append(last.pre.steps, last.step)
    /\ ~is_step(last.step) =>
         last.raised = "TpdpException" /\ _steps = last.pre.steps
    /\ Results = last.pre.results
    /\ _pipeline_abort = last.pre.abort
    /\ _state = last.pre.state

C9_Witness ==
  /\ C9_Case /\ ~is_step(last.step)
  /\ _steps = <<step_1, step_1>> /\ Results # << >> /\ _pipeline_abort

C9_WitnessDuplicate ==
  C9_Case /\ _steps = <<step_1, step_2, step_1>> /\ Results # << >>

\* ---- C10
\* C10: a PipelineResult handed to the caller is not shared with the
\* pipeline: whatever is called on the pipeline afterwards (registry_step,
\* pipeline_abort, another run that appends StepResults), the steps_result
\* list, the timestamps and the correct_finish of a PipelineResult returned
\* earlier read as they did when it was returned.
C10_NotShared ==
  \A i \in DOMAIN returned :
    Content(heap, returned[i].result) = returned[i].content

C10_Witness ==
  /\ Len(returned) = 2
  /\ Len(returned[1].content.steps_result) = 2
  /\ Len(Results) = 4
  /\ last.op = "pipeline_abort"

\* ---- C11
\* A step call of the last run invoked the abort hook and then raised.
C11_Case ==
  /\ RunCalled /\ _ignore_exception = TRUE
  /\ \E j \in DOMAIN last.calls :
       last.calls[j].hooks > 0 /\ last.calls[j].error # NoError

\* C11: the failure check precedes the abort check. Under the ignore policy
\* a step that invokes the abort hook and then raises is recorded as a
\* StepResult with correct_finish false, the PipelineResult has
\* correct_finish false and the run stops on the failure branch, not on the
\* abort branch; a run that stops on the abort branch has no failed step.
C11_FailureBeforeAbort ==
  /\ C11_Case =>
       /\ last.raised = NoError
       /\ RaisedLast
       /\ last.exit = "failure"
       /\ last.result.correct_finish = FALSE
       /\ ResultList[Len(ResultList)].correct_finish = FALSE
       /\ ResultList[Len(ResultList)].name
            = last.calls[Len(last.calls)].step.step_name
  /\ (RunCalled /\ last.exit = "abort") =>
       /\ last.result.correct_finish = TRUE
       /\ AllCorrect(Appended)

C11_Witness ==
  /\ C11_Case /\ _steps = <<step_1, abort_error_step, step_2>>
  /\ _pipeline_abort /\ ~last.pre.abort

\* ---- C12
\* C12: state threading. The first step of a run receives init_state; when
\* a step returns normally the instance it returned (the one it was handed,
\* mutated in place, or a new one) is what the next step of the sequence
\* receives, and what get_state() returns if the run ends there.
C12_Threading ==
  (RunCalled /\ is_state(last.init_state)) =>
    /\ last.calls # << >> => last.calls[1].state = last.init_state
    /\ \A j \in DOMAIN last.calls :
         last.calls[j].error = NoError =>
           IF j < Len(last.calls)
           THEN last.calls[j + 1].state = last.calls[j].returned
           ELSE get_state = last.calls[j].returned

C12_Witness ==
  /\ RunCalled /\ _steps = <<step_1, step_2, step_1>> /\ Len(last.calls) = 3
  /\ last.ctx = NoContext
  /\ last.calls[2].state.id = InitState.id /\ last.calls[2].state.val = 1
  /\ last.calls[3].state.id = "replaced" /\ last.calls[3].state.val = 2
  /\ get_state.id = "replaced" /\ get_state.val = 3

\* ---- C13
\* The last step call of the last run raised.
C13_Case ==
  /\ RunCalled /\ last.calls # << >>
  /\ last.calls[Len(last.calls)].error # NoError

\* C13: no rollback on failure. When a step raises, under either policy, no
\* further step call is made (the step is not retried), and the live state is
\* the instance that was handed to the failing step, with the in-place
\* mutations of the preceding steps and of the failing step before it raised;
\* get_state() returns that instance.
C13_NoRollback ==
  /\ RunCalled => \A j \in DOMAIN last.calls :
       last.calls[j].error # NoError => j = Len(last.calls)
  /\ C13_Case =>
       LET c == last.calls[Len(last.calls)]
       IN /\ get_state.id = c.state.id
          /\ get_state = Call(c.step, c.state, c.ctx).mutated
          /\ Len(last.calls) = 1 => c.state = last.init_state
          /\ (_ignore_exception = TRUE) <=> (last.raised = NoError)

C13_Witness ==
  /\ C13_Case /\ _ignore_exception = FALSE /\ last.raised = "ValueError"
  /\ _steps = <<step_1, error_step, step_1>> /\ last.ctx = NoContext
  /\ Len(last.calls) = 2
  /\ get_state.id = InitState.id /\ get_state.val = 2
  /\ get_state # last.init_state

C13_WitnessIgnore ==
  /\ C13_Case /\ _ignore_exception = TRUE /\ last.raised = NoError
  /\ _steps = <<step_1, error_step, step_1>> /\ last.ctx = DeltaContext
  /\ get_state.id = InitState.id /\ get_state.val = 3

\* ---- C14
\* The j-th step call of the last run invoked the abort hook and returned.
C14_Case(j) ==
  /\ RunCalled /\ j \in DOMAIN last.calls
  /\ last.calls[j].hooks > 0 /\ last.calls[j].error = NoError

\* C14: abort is a post-step decision only. A step that invokes the abort
\* hook is not interrupted: what it does after the call takes effect and the
\* state it returns is adopted; its own StepResult has correct_finish true
\* when it returns normally; and however many times it invokes the hook, the
\* effect is that of one invocation: the flag is set and the run stops after
\* that step.
C14_PostStepAbort ==
  \A j \in 1..MaxSteps :
    C14_Case(j) =>
      LET c == last.calls[j]
      IN /\ c.returned = Body(c.step, c.state, c.ctx).returned
         /\ get_state = c.returned
         /\ j = Len(last.calls)
         /\ last.raised = NoError /\ last.exit = "abort"
         /\ Results[Len(Results)].name = c.step.step_name
         /\ Results[Len(Results)].correct_finish = TRUE
         /\ last.result.correct_finish = TRUE
         /\ _pipeline_abort = TRUE

C14_Witness ==
  /\ C14_Case(2) /\ last.calls[2].hooks = 2 /\ ~last.pre.abort
  /\ _steps = <<step_1, abort_step, step_1>> /\ last.ctx = DeltaContext
  /\ get_state.id = InitState.id /\ get_state.val = 3

\* ---- C15
\* C15 as stated: for every keyword context passed to run, a context that
\* has the key pipeline_abort included, every step attempted in the run is
\* invoked with exactly that context together with the pipeline's abort hook
\* passed as pipeline_abort.
C15_Claim ==
  RunCalled =>
    \A j \in DOMAIN last.calls :
      /\ last.calls[j].entered = TRUE
      /\ last.calls[j].ctx = last.ctx
      /\ last.calls[j].hook = "self.pipeline_abort"

C17_Claim ==
  C8_Case =>
    /\ get_state = last.pre.state
    /\ get_state # last.init_state

\* ---- C18
\* The timing order of a list of StepResult entries inside the interval of
\* the PipelineResult r.
TimeOrdered(list, r) ==
  /\ \A i \in DOMAIN list :
       /\ list[i].start_at <= list[i].finish_at
       /\ list[i].duration >= 0
       /\ r.start_at <= list[i].start_at
       /\ list[i].finish_at <= r.finish_at
  /\ \A i \in 1..(Len(list) - 1) : list[i].finish_at <= list[i + 1].start_at

\* C18 as stated: in every PipelineResult returned by run, on a first run or
\* a repeated one, every StepResult has start_at <= finish_at and a
\* non-negative duration, consecutive entries are time-ordered, and every
\* entry's interval lies inside the run's own interval.
C18_Claim == RunReturned => TimeOrdered(ResultList, last.result)

\* The same for the entries the run itself appended: this part holds.
C18_OwnEntries ==
  RunReturned =>
    /\ TimeOrdered(Appended, last.result)
    /\ last.result.start_at <= last.result.finish_at
    /\ runs = 1 => TimeOrdered(ResultList, last.result)

====
